---- MODULE Spec2Model ----
(***************************************************************************)
(* Model of the search package: the query abstraction (StringQuery and     *)
(* RegExpQuery), the search commands built on it, the word-boundary        *)
(* predicates and the next-occurrence selector of src/src/word.ts.         *)
(*                                                                         *)
(* Documents are sequences of one-character strings; positions are the     *)
(* zero-based offsets of the source, so the character at offset p is       *)
(* doc[p + 1].  A range is a record [from, to]; ranges are forward         *)
(* (anchor = from, head = to), as EditorSelection.range(from, to) builds   *)
(* them.  A search string is a sequence of characters; in a regular        *)
(* expression "." is the wildcard and "|" separates alternatives.          *)
(* Case folding is not modelled: the alphabet has a single case.           *)
(***************************************************************************)
EXTENDS Integers, Sequences, FiniteSets, TLC

VARIABLES doc, query, sel, chunk, op, prev, ret, res, ranges, out, first,
          visited, repeated, seed, panel, visible, deco

(***************************************************************************)
(* doc, query and sel are the editor state the commands read and write:    *)
(* the document, the search query and the selection.  The others record    *)
(* the last operation: op its name, prev the selection it ran on, ret the  *)
(* value the command returned, res the match and ranges the match list it  *)
(* obtained from the query, out the replacement text, chunk the chunk size *)
(* the backward search ran with.  first, visited and repeated follow a run *)
(* of findNext calls: the first match it returned, the matches returned so *)
(* far and the first match that came back.  seed is the initial selection. *)
(* panel tells whether the search panel is open, visible is the list of    *)
(* visible ranges of the view and deco the decoration set the search       *)
(* highlighter holds.  Under the highlighter ranges lists the calls the    *)
(* last pass made to the range set builder, under replaceNext the changes  *)
(* it dispatched.                                                          *)
(***************************************************************************)
vars == <<doc, query, sel, chunk, op, prev, ret, res, ranges, out, first,
          visited, repeated, seed, panel, visible, deco>>

(***************************************************************************)
(* Bounds of the model.                                                    *)
(***************************************************************************)
MaxDoc == 4
MaxNeedle == 2
MaxChunk == 2
MaxFuel == 8

Letters == {"a", "b"}
Chars == {"a", "b", "-"}

Max(a, b) == IF a >= b THEN a ELSE b
Min(a, b) == IF a <= b THEN a ELSE b

SeqsUpTo(S, n) == UNION {[1..k -> S] : k \in 0..n}

\* The "no result" value of a cursor that is done, and of a null match.
Null == [from |-> -1, to |-> -1, match |-> <<>>]

\* doc.sliceString(from, to), clipped to the document as Text.slice does.
sliceDoc(d, from, to) ==
  LET f == Max(0, Min(from, Len(d)))
      t == Max(f, Min(to, Len(d)))
  IN SubSeq(d, f + 1, t)

(***************************************************************************)
(* SearchCursor (./cursor): the literal match cursor.                      *)
(***************************************************************************)
\* Whether needle occurs in d at offset p and ends at or before offset to.
OccursAt(d, needle, p, to) ==
  /\ p + Len(needle) <= to
  /\ to <= Len(d)
  /\ \A i \in 1..Len(needle) : d[p + i] = needle[i]

\* The first occurrence starting at or after start inside [start, to).
RECURSIVE SearchCursorFrom(_, _, _, _)
SearchCursorFrom(d, needle, start, to) ==
  IF start + Len(needle) > to THEN Null
  ELSE IF OccursAt(d, needle, start, to)
       THEN [from |-> start, to |-> start + Len(needle), match |-> <<>>]
       ELSE SearchCursorFrom(d, needle, start + 1, to)

\* cursor.next(): the nearest match starting at or after the previous to.
SearchCursor_next(d, needle, value, to) ==
  SearchCursorFrom(d, needle, value.to, to)

\* cursor.nextOverlapping(): the nearest match starting after the previous from.
SearchCursor_nextOverlapping(d, needle, value, to) ==
  SearchCursorFrom(d, needle, value.from + 1, to)

(***************************************************************************)
(* RegExpCursor (./regexp): the regular-expression match cursor.           *)
(***************************************************************************)
\* The alternatives of a pattern: its pieces between "|" separators.
RECURSIVE Alternatives(_)
Alternatives(pat) ==
  IF \A i \in 1..Len(pat) : pat[i] # "|" THEN <<pat>>
  ELSE LET k == CHOOSE i \in 1..Len(pat) :
                  pat[i] = "|" /\ \A j \in 1..(i - 1) : pat[j] # "|"
       IN <<SubSeq(pat, 1, k - 1)>> \o Alternatives(SubSeq(pat, k + 1, Len(pat)))

\* validRegExp: the pattern compiles and cannot match the empty string.
validRegExp(pat) ==
  \A i \in 1..Len(Alternatives(pat)) : Alternatives(pat)[i] # <<>>

\* Whether alternative alt matches d at offset p, ending at or before to.
AltMatchesAt(d, alt, p, to) ==
  /\ p + Len(alt) <= to
  /\ to <= Len(d)
  /\ \A i \in 1..Len(alt) : alt[i] = "." \/ d[p + i] = alt[i]

\* The regex engine at offset p: the first alternative that matches there.
RegExpExecAt(d, pat, p, to) ==
  LET alts == Alternatives(pat)
      hit == {i \in 1..Len(alts) : AltMatchesAt(d, alts[i], p, to)}
  IN IF hit = {} THEN Null
     ELSE LET i == CHOOSE i \in hit : \A j \in hit : i <= j
          IN [from |-> p, to |-> p + Len(alts[i]),
              match |-> <<SubSeq(d, p + 1, p + Len(alts[i]))>>]

RECURSIVE RegExpCursorFrom(_, _, _, _)
RegExpCursorFrom(d, pat, start, to) ==
  IF start >= to THEN Null
  ELSE IF RegExpExecAt(d, pat, start, to) # Null
       THEN RegExpExecAt(d, pat, start, to)
       ELSE RegExpCursorFrom(d, pat, start + 1, to)

RegExpCursor_next(d, pat, value, to) ==
  RegExpCursorFrom(d, pat, value.to, to)

\* nextOverlapping restarts the regex search at match.from + 1.
RegExpCursor_nextOverlapping(d, pat, value, to) ==
  RegExpCursorFrom(d, pat, value.from + 1, to)

(***************************************************************************)
(* StringQuery.                                                            *)
(***************************************************************************)
StringQuery_valid(q) == q.search # <<>>

\* this.cursor(doc, from, to).nextOverlapping() on a fresh cursor.
StringQuery_cursor(d, q, from, to) == SearchCursorFrom(d, q.search, from, to)

StringQuery_nextMatch(d, q, curFrom, curTo) ==
  LET cursor == StringQuery_cursor(d, q, curTo, Len(d))
  IN IF cursor = Null THEN StringQuery_cursor(d, q, 0, curFrom) ELSE cursor

\* Searching in reverse: chunk after chunk is scanned forward and the last
\* match of the first chunk that holds one is returned.  FindPrev.ChunkSize
\* is the parameter size; fuel counts the passes of the loop, and a loop
\* that has not returned after fuel passes yields Diverged.
Diverged == [from |-> -2, to |-> -2, match |-> <<>>]

\* while (!cursor.nextOverlapping().done) range = cursor.value
RECURSIVE LastInChunk(_, _, _, _, _)
LastInChunk(d, q, cursor, range, pos) ==
  IF cursor = Null THEN range
  ELSE LastInChunk(d, q, SearchCursor_nextOverlapping(d, q.search, cursor, pos),
                   cursor, pos)

\* A chunk that is not extended backward by the needle's length.
chunkStart_short(from, pos, size, len) == Max(from, pos - size)

\* The start of the chunk that ends at pos.
chunkStart(from, pos, size, len) == Max(from, pos - size - len)

RECURSIVE prevMatchLoop(_, _, _, _, _, _)
prevMatchLoop(d, q, from, pos, size, fuel) ==
  IF fuel = 0 THEN Diverged
  ELSE LET start == chunkStart(from, pos, size, Len(q.search))
           range == LastInChunk(d, q, StringQuery_cursor(d, q, start, pos),
                                Null, pos)
       IN IF range # Null THEN range
          ELSE IF start = from THEN Null
          ELSE prevMatchLoop(d, q, from, pos - size, size, fuel - 1)

StringQuery_prevMatchInRange(d, q, from, to, size) ==
  prevMatchLoop(d, q, from, to, size, MaxFuel)

StringQuery_prevMatch(d, q, curFrom, curTo, size) ==
  LET before == StringQuery_prevMatchInRange(d, q, 0, curFrom, size)
  IN IF before # Null THEN before
     ELSE StringQuery_prevMatchInRange(d, q, curTo, Len(d), size)

StringQuery_getReplacement(q, result) == q.replace

\* The result of matchAll: null, or the sequence of matches.
TooMany == [null |-> TRUE, list |-> <<>>]

RECURSIVE StringMatchAllLoop(_, _, _, _, _)
StringMatchAllLoop(d, q, cursor, acc, limit) ==
  IF cursor = Null THEN [null |-> FALSE, list |-> acc]
  ELSE IF Len(acc) >= limit THEN TooMany
  ELSE StringMatchAllLoop(d, q, SearchCursor_next(d, q.search, cursor, Len(d)),
                          Append(acc, cursor), limit)

StringQuery_matchAll(d, q, limit) ==
  StringMatchAllLoop(d, q, StringQuery_cursor(d, q, 0, Len(d)), <<>>, limit)

(***************************************************************************)
(* RegExpQuery.                                                            *)
(***************************************************************************)
RegExpQuery_valid(q) == q.search # <<>> /\ validRegExp(q.search)

RegExpQuery_cursor(d, q, from, to) == RegExpCursorFrom(d, q.search, from, to)

RegExpQuery_nextMatch(d, q, curFrom, curTo) ==
  LET cursor == RegExpQuery_cursor(d, q, curTo, Len(d))
  IN IF cursor = Null THEN RegExpQuery_cursor(d, q, 0, curFrom) ELSE cursor

RegExpQuery_prevMatch(d, q, curFrom, curTo) == Null

RegExpMatchAllAdvance(d, q, cursor) ==
  RegExpCursor_nextOverlapping(d, q.search, cursor, Len(d))

RECURSIVE RegExpMatchAllLoop(_, _, _, _, _)
RegExpMatchAllLoop(d, q, cursor, acc, limit) ==
  IF cursor = Null THEN [null |-> FALSE, list |-> acc]
  ELSE IF Len(acc) >= limit THEN TooMany
  ELSE RegExpMatchAllLoop(d, q, RegExpMatchAllAdvance(d, q, cursor),
                          Append(acc, cursor), limit)

RegExpQuery_matchAll(d, q, limit) ==
  RegExpMatchAllLoop(d, q, RegExpQuery_cursor(d, q, 0, Len(d)), <<>>, limit)

(***************************************************************************)
(* Query: dispatch on the variant.                                         *)
(***************************************************************************)
valid(q) ==
  IF q.kind = "string" THEN StringQuery_valid(q) ELSE RegExpQuery_valid(q)

nextMatch(d, q, curFrom, curTo) ==
  IF q.kind = "string" THEN StringQuery_nextMatch(d, q, curFrom, curTo)
  ELSE RegExpQuery_nextMatch(d, q, curFrom, curTo)

prevMatch(d, q, curFrom, curTo, size) ==
  IF q.kind = "string" THEN StringQuery_prevMatch(d, q, curFrom, curTo, size)
  ELSE RegExpQuery_prevMatch(d, q, curFrom, curTo)

matchAll(d, q, limit) ==
  IF q.kind = "string" THEN StringQuery_matchAll(d, q, limit)
  ELSE RegExpQuery_matchAll(d, q, limit)

(***************************************************************************)
(* EditorSelection (@codemirror/state): a selection is a record            *)
(* [ranges, main]: the sorted ranges and the index of the main range.      *)
(***************************************************************************)
Range(from, to) == [from |-> from, to |-> to]

\* ranges.sort((a, b) => a.from - b.from), a stable sort, by insertion.
RECURSIVE SortByFrom(_)
SortByFrom(rs) ==
  IF Len(rs) <= 1 THEN rs
  ELSE LET sorted == SortByFrom(SubSeq(rs, 1, Len(rs) - 1))
           r == rs[Len(rs)]
           k == Cardinality({i \in 1..Len(sorted) : sorted[i].from <= r.from})
       IN SubSeq(sorted, 1, k) \o <<r>> \o SubSeq(sorted, k + 1, Len(sorted))

\* The merging pass of EditorSelection.normalized over the sorted ranges.
RECURSIVE MergeRanges(_, _, _)
MergeRanges(rs, i, acc) ==
  IF i > Len(rs) THEN acc
  ELSE LET range == rs[i] IN
       IF acc # <<>> /\ (IF range.from = range.to
                         THEN range.from <= acc[Len(acc)].to
                         ELSE range.from < acc[Len(acc)].to)
       THEN LET last == acc[Len(acc)]
                merged == [from |-> last.from, to |-> Max(range.to, last.to),
                           m |-> last.m \/ range.m]
            IN MergeRanges(rs, i + 1, SubSeq(acc, 1, Len(acc) - 1) \o <<merged>>)
       ELSE MergeRanges(rs, i + 1, Append(acc, range))

\* EditorSelection.create(ranges, mainIndex); mainIndex counts from 1 here.
EditorSelection_create(rs, mainIndex) ==
  LET tagged == [i \in 1..Len(rs) |->
                   [from |-> rs[i].from, to |-> rs[i].to, m |-> i = mainIndex]]
      merged == MergeRanges(SortByFrom(tagged), 1, <<>>)
  IN [ranges |-> [i \in 1..Len(merged) |-> Range(merged[i].from, merged[i].to)],
      main |-> CHOOSE i \in 1..Len(merged) : merged[i].m]

\* selection.addRange(range): the new range becomes the main range.
addRange(s, range) == EditorSelection_create(<<range>> \o s.ranges, 1)

\* A selection of one range, as dispatch({selection: {anchor, head}}) sets.
Single(from, to) == [ranges |-> <<Range(from, to)>>, main |-> 1]

MainRange(s) == s.ranges[s.main]

(***************************************************************************)
(* The search commands.                                                    *)
(***************************************************************************)
\* The limit on the number of ranges a selection command selects is 1000 in
\* the source; the model scales it to the documents it explores.
SelectLimit == 2

NoList == [null |-> FALSE, list |-> <<>>]

Pos(m) == <<m.from, m.to>>

\* searchCommand: the command body runs only on a valid query.
searchCommand(q) == valid(q)

findNext ==
  /\ searchCommand(query)
  /\ LET from == MainRange(sel).from
         to == MainRange(sel).to
         next == nextMatch(doc, query, from, to)
     IN /\ res' = next
        /\ IF next = Null \/ (next.from = from /\ next.to = to)
           THEN ret' = FALSE /\ sel' = sel
           ELSE ret' = TRUE /\ sel' = Single(next.from, next.to)
        /\ first' = IF first = Null THEN next ELSE first
        /\ visited' = IF next = Null THEN visited ELSE visited \cup {Pos(next)}
        /\ repeated' = IF repeated = Null /\ next # Null /\ Pos(next) \in visited
                       THEN next ELSE repeated
  /\ op' = "findNext"
  /\ prev' = sel
  /\ chunk' = 0 /\ ranges' = NoList
  /\ UNCHANGED <<doc, query, out, seed, panel, visible, deco>>

\* FindPrev.ChunkSize is 10000 in the source; here the command runs with any
\* chunk size up to MaxChunk, so that chunk boundaries fall inside the
\* documents of the model, and chunk records the size it ran with.
findPrevious ==
  /\ searchCommand(query)
  /\ \E size \in 1..MaxChunk :
       LET from == MainRange(sel).from
           to == MainRange(sel).to
           range == prevMatch(doc, query, from, to, size)
       IN /\ res' = range
          /\ chunk' = size
          /\ IF range = Null
             THEN ret' = FALSE /\ sel' = sel
             ELSE ret' = TRUE /\ sel' = Single(range.from, range.to)
  /\ op' = "findPrevious"
  /\ prev' = sel
  /\ first' = Null /\ visited' = {} /\ repeated' = Null /\ ranges' = NoList
  /\ UNCHANGED <<doc, query, out, seed, panel, visible, deco>>

selectMatches ==
  /\ searchCommand(query)
  /\ LET all == matchAll(doc, query, SelectLimit)
     IN /\ ranges' = all
        /\ IF all.null \/ all.list = <<>>
           THEN ret' = FALSE /\ sel' = sel
           ELSE /\ ret' = TRUE
                /\ sel' = EditorSelection_create(
                            [i \in 1..Len(all.list) |->
                               Range(all.list[i].from, all.list[i].to)], 1)
  /\ op' = "selectMatches"
  /\ prev' = sel
  /\ first' = Null /\ visited' = {} /\ repeated' = Null
  /\ chunk' = 0 /\ res' = Null
  /\ UNCHANGED <<doc, query, out, seed, panel, visible, deco>>

\* The for loop of selectSelectionMatches: the ranges pushed and the index
\* of the main one, or TooMany when the loop returned false.
RECURSIVE selectionMatchesLoop(_, _, _, _, _, _)
selectionMatchesLoop(d, text, cursor, acc, main, from) ==
  IF cursor = Null THEN [null |-> FALSE, list |-> acc, main |-> main]
  ELSE IF Len(acc) > SelectLimit THEN [null |-> TRUE, list |-> <<>>, main |-> 0]
  ELSE selectionMatchesLoop(d, text, SearchCursor_next(d, text, cursor, Len(d)),
                            Append(acc, Range(cursor.from, cursor.to)),
                            IF cursor.from = from THEN Len(acc) ELSE main, from)

selectSelectionMatches ==
  /\ IF Len(sel.ranges) > 1 \/ MainRange(sel).from = MainRange(sel).to
     THEN ret' = FALSE /\ sel' = sel /\ ranges' = NoList
     ELSE LET from == MainRange(sel).from
              to == MainRange(sel).to
              text == sliceDoc(doc, from, to)
              found == selectionMatchesLoop(doc, text,
                         SearchCursorFrom(doc, text, 0, Len(doc)), <<>>, 0, from)
          IN /\ ranges' = [null |-> found.null, list |-> found.list]
             /\ IF found.null
                THEN ret' = FALSE /\ sel' = sel
                ELSE /\ ret' = TRUE
                     /\ sel' = EditorSelection_create(found.list, found.main + 1)
  /\ op' = "selectSelectionMatches"
  /\ prev' = sel
  /\ first' = Null /\ visited' = {} /\ repeated' = Null
  /\ chunk' = 0 /\ res' = Null
  /\ UNCHANGED <<doc, query, out, seed, panel, visible, deco>>

(***************************************************************************)
(* The search specification: any document, any valid query, any single     *)
(* range as the selection; then the search commands.                       *)
(***************************************************************************)
Docs(S) == SeqsUpTo(S, MaxDoc)

StringNeedles == SeqsUpTo(Letters, MaxNeedle) \ {<<>>}

RegExpPatterns ==
  {<<"a">>, <<"a", ".">>, <<"a", "b", "a">>, <<"a", "b", "|", "a">>,
   <<".", "b">>}

Queries ==
  {[kind |-> "string", search |-> n, replace |-> <<>>] : n \in StringNeedles}
  \cup {[kind |-> "regexp", search |-> p, replace |-> <<>>] : p \in RegExpPatterns}

Init ==
  /\ doc \in Docs(Letters)
  /\ query \in {q \in Queries : valid(q)}
  /\ \E f \in 0..Len(doc) : \E t \in f..Len(doc) : sel = Single(f, t)
  /\ chunk = 0
  /\ op = "init" /\ prev = sel /\ ret = FALSE /\ res = Null
  /\ ranges = NoList /\ out = <<>>
  /\ first = Null /\ visited = {} /\ repeated = Null /\ seed = sel
  /\ panel = FALSE /\ visible = <<>> /\ deco = <<>>

Next == findNext \/ findPrevious \/ selectMatches

Spec == Init /\ [][Next]_vars

\* The two commands that select every match.
SpecSelect == Init /\ [][selectMatches \/ selectSelectionMatches]_vars

\* The backward search alone: findPrevious from every document, valid query
\* and cursor range.
SpecPrev == Init /\ [][findPrevious]_vars

(***************************************************************************)
(* Properties of the query contract.                                       *)
(***************************************************************************)
\* The offsets at which the query matches anywhere in the document.
MatchStarts(d, q) ==
  {p \in 0..Len(d) :
     IF q.kind = "string" THEN OccursAt(d, q.search, p, Len(d))
     ELSE RegExpExecAt(d, q.search, p, Len(d)) # Null}

\* The starts of the occurrences of a needle lying entirely inside [lo, hi).
OccurrencesIn(d, needle, lo, hi) ==
  {p \in lo..hi : hi <= Len(d) /\ OccursAt(d, needle, p, hi)}

MaxOf(S) == CHOOSE x \in S : \A y \in S : y <= x

\* C1: nextMatch returns none only if the whole document holds no match of
\* the query; whenever the document holds a match, nextMatch returns one.
C1_NextMatchNoneOnlyIfNoMatch ==
  (op = "findNext" /\ res = Null) => MatchStarts(doc, query) = {}

\* C2: for a literal needle, nextMatch applied repeatedly, each call from the
\* match returned before, keeps returning matches while the document holds
\* any, and the first match to come back is the first match that was found,
\* by which time every match matchAll reports has been returned.
C2_NextMatchCycle ==
  (op = "findNext" /\ query.kind = "string") =>
    LET all == StringQuery_matchAll(doc, query, SelectLimit).list
    IN /\ res = Null => all = <<>>
       /\ repeated # Null =>
            /\ Pos(repeated) = Pos(first)
            /\ \A i \in 1..Len(all) : Pos(all[i]) \in visited

\* C3: for a literal query prevMatch returns the occurrence with the greatest
\* start among those lying entirely inside [0, curFrom), else the one with the
\* greatest start inside [curTo, doc.length), else none, for every chunk
\* size; and the backward chunk loop terminates.
C3_PrevMatchIsLast ==
  (op = "findPrevious" /\ query.kind = "string") =>
    LET L == Len(query.search)
        before == OccurrencesIn(doc, query.search, 0, MainRange(prev).from)
        after == OccurrencesIn(doc, query.search, MainRange(prev).to, Len(doc))
    IN /\ res # Diverged
       /\ before # {} => Pos(res) = <<MaxOf(before), MaxOf(before) + L>>
       /\ (before = {} /\ after # {}) =>
            Pos(res) = <<MaxOf(after), MaxOf(after) + L>>
       /\ (before = {} /\ after = {}) => res = Null

\* Witness of C3: prevMatch returned an occurrence that the first chunk did
\* not hold and that straddles the start of that chunk.
C3_Witness ==
  /\ op = "findPrevious" /\ query.kind = "string" /\ res # Null
  /\ res.from < MainRange(prev).from - chunk - Len(query.search)
  /\ res.to > MainRange(prev).from - chunk - Len(query.search)

\* C4: the matches matchAll returns are in strictly increasing order and
\* pairwise non-overlapping, for the literal and the regex variant.
C4_MatchAllDisjoint ==
  (op = "selectMatches" /\ ~ranges.null) =>
    \A i \in 1..Len(ranges.list) : \A j \in 1..Len(ranges.list) :
      i < j => /\ ranges.list[i].from < ranges.list[j].from
               /\ ranges.list[i].to <= ranges.list[j].from

(***************************************************************************)
(* The word-boundary predicates.                                           *)
(***************************************************************************)
\* state.charCategorizer: the category of a one-character string.
check(char) ==
  IF char = <<>> THEN "Space"
  ELSE IF char[1] \in Letters THEN "Word" ELSE "Other"

insideWordBoundaries(d, from, to) ==
  /\ from = 0 \/ check(sliceDoc(d, from - 1, from)) # "Word"
  /\ to = Len(d) \/ check(sliceDoc(d, to, to + 1)) # "Word"

\* Only the first character is looked at.
insideWord_first(d, from, to) ==
  check(sliceDoc(d, from, from + 1)) = "Word"

insideWord(d, from, to) ==
  /\ check(sliceDoc(d, from, from + 1)) = "Word"
  /\ check(sliceDoc(d, to - 1, to)) = "Word"

isWholeWord(d, from, to) ==
  insideWordBoundaries(d, from, to) /\ insideWord(d, from, to)

\* The predicate applied to the candidate match that the selection holds.
isWholeWordOp ==
  /\ ret' = isWholeWord(doc, MainRange(sel).from, MainRange(sel).to)
  /\ op' = "isWholeWord"
  /\ prev' = sel
  /\ UNCHANGED <<doc, query, sel, chunk, res, ranges, out, first, visited,
                 repeated, seed, panel, visible, deco>>

NoQuery == [kind |-> "string", search |-> <<>>, replace |-> <<>>]

\* Any document, any non-empty candidate range in it.
InitWord ==
  /\ doc \in Docs(Chars)
  /\ \E f \in 0..Len(doc) : \E t \in (f + 1)..Len(doc) : sel = Single(f, t)
  /\ query = NoQuery /\ chunk = 0
  /\ op = "init" /\ prev = sel /\ ret = FALSE /\ res = Null
  /\ ranges = NoList /\ out = <<>>
  /\ first = Null /\ visited = {} /\ repeated = Null /\ seed = sel
  /\ panel = FALSE /\ visible = <<>> /\ deco = <<>>

SpecWord == InitWord /\ [][isWholeWordOp]_vars

IsWordChar(d, p) == p >= 0 /\ p < Len(d) /\ d[p + 1] \in Letters

C6_WholeWordEdgeTransitions ==
  op = "isWholeWord" =>
    LET from == MainRange(prev).from
        to == MainRange(prev).to
    IN ret = (/\ ~(IsWordChar(doc, from - 1) /\ IsWordChar(doc, from))
              /\ ~(IsWordChar(doc, to - 1) /\ IsWordChar(doc, to)))

(***************************************************************************)
(* Replacement templates.  A template is a sequence of characters; the     *)
(* match array of a regex result holds the whole match and then the        *)
(* capture groups, each a sequence of characters.                          *)
(***************************************************************************)
MaxTemplate == 4

Digits == {"0", "1", "2"}

\* The numeric value +i of a one-digit string.
DigitValue(c) == IF c = "0" THEN 0 ELSE IF c = "1" THEN 1 ELSE 2

\* The character class [$&\d+] of the template pattern.
TemplateClass == {"$", "&", "+"} \cup Digits

\* A replacer that takes any digit, "0" included, as a group index.
replacer_zero(m, i, match) ==
  IF i = "$" THEN <<"$">>
  ELSE IF i = "&" THEN match[1]
  ELSE IF i \in Digits /\ DigitValue(i) < Len(match)
       THEN match[DigitValue(i) + 1]
  ELSE m

\* The replacer function: m is the matched "$x", i its second character.
replacer(m, i, match) ==
  IF i = "$" THEN <<"$">>
  ELSE IF i = "&" THEN match[1]
  ELSE IF i # "0" /\ i \in Digits /\ DigitValue(i) < Len(match)
       THEN match[DigitValue(i) + 1]
  ELSE m

\* this.replace.replace(/\$([$&\d+])/g, replacer), scanning from offset k.
RECURSIVE replaceFrom(_, _, _)
replaceFrom(tpl, k, match) ==
  IF k > Len(tpl) THEN <<>>
  ELSE IF tpl[k] = "$" /\ k < Len(tpl) /\ tpl[k + 1] \in TemplateClass
       THEN replacer(<<"$", tpl[k + 1]>>, tpl[k + 1], match)
            \o replaceFrom(tpl, k + 2, match)
       ELSE <<tpl[k]>> \o replaceFrom(tpl, k + 1, match)

RegExpQuery_getReplacement(q, result) == replaceFrom(q.replace, 1, result.match)

getReplacement(q, result) ==
  IF q.kind = "string" THEN StringQuery_getReplacement(q, result)
  ELSE RegExpQuery_getReplacement(q, result)

getReplacementOp ==
  /\ out' = getReplacement(query, res)
  /\ op' = "getReplacement"
  /\ UNCHANGED <<doc, query, sel, chunk, prev, ret, res, ranges, first,
                 visited, repeated, seed, panel, visible, deco>>

TemplateChars == {"$", "&", "+", "0", "1", "x"}

Templates == SeqsUpTo(TemplateChars, MaxTemplate)

\* Match arrays: the whole match, then zero, one or two capture groups.
MatchArrays ==
  {<<w>> : w \in {<<"a">>, <<"a", "b">>}}
  \cup {<<w, g>> : w \in {<<"a", "b">>}, g \in {<<>>, <<"a">>, <<"$">>}}

\* Any template, any match array, either query variant.
InitRepl ==
  /\ doc = <<"a", "b">>
  /\ query \in [kind : {"string", "regexp"}, search : {<<"a">>},
                replace : Templates]
  /\ res \in {[from |-> 0, to |-> Len(m[1]), match |-> m] : m \in MatchArrays}
  /\ sel = Single(0, 0) /\ chunk = 0
  /\ op = "init" /\ prev = sel /\ ret = FALSE
  /\ ranges = NoList /\ out = <<>>
  /\ first = Null /\ visited = {} /\ repeated = Null /\ seed = sel
  /\ panel = FALSE /\ visible = <<>> /\ deco = <<>>

SpecRepl == InitRepl /\ [][getReplacementOp]_vars

\* The number of "$" characters directly before offset k of the template.
RECURSIVE DollarsBefore(_, _)
DollarsBefore(tpl, k) ==
  IF k > 1 /\ tpl[k - 1] = "$" THEN 1 + DollarsBefore(tpl, k - 1) ELSE 0

\* Whether a "$x" sequence the scan recognises starts at offset k: a "$"
\* followed by a class character and preceded by an even run of "$".
StartsEscape(tpl, k) ==
  /\ k >= 1 /\ k < Len(tpl)
  /\ tpl[k] = "$" /\ tpl[k + 1] \in TemplateClass
  /\ DollarsBefore(tpl, k) % 2 = 0

\* What the template contributes at offset k.
Piece(tpl, k, match) ==
  IF StartsEscape(tpl, k)
  THEN LET x == tpl[k + 1]
       IN IF x = "$" THEN <<"$">>
          ELSE IF x = "&" THEN match[1]
          ELSE IF x \in {"1", "2"} /\ DigitValue(x) + 1 <= Len(match)
               THEN match[DigitValue(x) + 1]
          ELSE <<"$", x>>
  ELSE IF StartsEscape(tpl, k - 1) THEN <<>>
  ELSE <<tpl[k]>>

RECURSIVE Pieces(_, _, _)
Pieces(tpl, k, match) ==
  IF k > Len(tpl) THEN <<>> ELSE Piece(tpl, k, match) \o Pieces(tpl, k + 1, match)

\* C7: getReplacement on a literal query returns the replacement string
\* unchanged; on a regex query it returns the template with every "$$"
\* replaced by "$", every "$&" by the whole match, every "$d" whose group
\* exists (d in 1-9) by that group's text, and everything else copied.
C7_GetReplacement ==
  op = "getReplacement" =>
    IF query.kind = "string" THEN out = query.replace
    ELSE out = Pieces(query.replace, 1, res.match)

\* Witness of C7: a regex template holding "$&" and a reference to a group
\* that does not exist was expanded to the whole match followed by "$1".
C7_Witness ==
  /\ op = "getReplacement" /\ query.kind = "regexp"
  /\ query.replace = <<"$", "&", "$", "1">>
  /\ Len(res.match) = 1
  /\ out = res.match[1] \o <<"$", "1">>

(***************************************************************************)
(* The next-occurrence selector.                                           *)
(***************************************************************************)
MaxOccDoc == 5
MaxSel == 2

NoRange == Range(-1, -1)

RECURSIVE WordStart(_, _)
WordStart(d, start) ==
  IF start > 0 /\ check(sliceDoc(d, start - 1, start)) = "Word"
  THEN WordStart(d, start - 1) ELSE start

RECURSIVE WordEnd(_, _)
WordEnd(d, end) ==
  IF end < Len(d) /\ check(sliceDoc(d, end, end + 1)) = "Word"
  THEN WordEnd(d, end + 1) ELSE end

\* state.wordAt(pos): the word around pos, or none.
wordAt(d, pos) ==
  IF WordStart(d, pos) = WordEnd(d, pos) THEN NoRange
  ELSE Range(WordStart(d, pos), WordEnd(d, pos))

\* The range selectWord maps a range to: the word at its head, or a cursor.
wordOrCursor(d, range) ==
  IF wordAt(d, range.to) # NoRange THEN wordAt(d, range.to)
  ELSE Range(range.to, range.to)

\* selectWord: the new selection, and whether it differs from the old one.
selectWord(d, s) ==
  LET newSel == EditorSelection_create(
                  [i \in 1..Len(s.ranges) |-> wordOrCursor(d, s.ranges[i])],
                  s.main)
  IN [sel |-> newSel, ret |-> newSel # s]

\* The wrapped scan: the first match whose start no selected range shares.
RECURSIVE wrapScan(_, _, _, _, _)
wrapScan(d, text, rs, cursor, to) ==
  IF cursor = Null THEN Null
  ELSE IF ~\E i \in 1..Len(rs) : rs[i].from = cursor.from THEN cursor
  ELSE wrapScan(d, text, rs, SearchCursor_next(d, text, cursor, to), to)

findNextOccurrence(d, s, text) ==
  LET rs == s.ranges
      last == rs[Len(rs)]
      ahead == SearchCursorFrom(d, text, last.to, Len(d))
      to == Max(0, last.from - 1)
  IN IF ahead # Null THEN ahead
     ELSE wrapScan(d, text, rs, SearchCursorFrom(d, text, 0, to), to)

selectNextOccurrence ==
  /\ LET rs == sel.ranges
         searchedText == sliceDoc(doc, rs[1].from, rs[1].to)
         range == findNextOccurrence(doc, sel, searchedText)
     IN IF \E i \in 1..Len(rs) : rs[i].from = rs[i].to
        THEN /\ sel' = selectWord(doc, sel).sel
             /\ ret' = selectWord(doc, sel).ret
        ELSE IF \E i \in 1..Len(rs) :
                  sliceDoc(doc, rs[i].from, rs[i].to) # searchedText
        THEN ret' = FALSE /\ sel' = sel
        ELSE IF range = Null
        THEN ret' = FALSE /\ sel' = sel
        ELSE /\ ret' = TRUE
             /\ sel' = addRange(sel, Range(range.from, range.to))
  /\ op' = "selectNextOccurrence"
  /\ prev' = sel
  /\ UNCHANGED <<doc, query, chunk, res, ranges, out, first, visited, repeated,
                 seed, panel, visible, deco>>

OccChars == {"a", "-"}

RangesOf(d) == {Range(f, t) : f \in 0..Len(d), t \in 0..Len(d)} \cap
               {r \in [from : 0..Len(d), to : 0..Len(d)] : r.from <= r.to}

\* The selections of up to MaxSel ranges that EditorSelection can hold.
Selections(d) ==
  {s \in [ranges : SeqsUpTo(RangesOf(d), MaxSel) \ {<<>>}, main : 1..MaxSel] :
     s.main <= Len(s.ranges) /\ EditorSelection_create(s.ranges, s.main) = s}

\* Any document, any selection of it.
InitOcc ==
  /\ doc \in SeqsUpTo(OccChars, MaxOccDoc)
  /\ sel \in Selections(doc)
  /\ query = NoQuery /\ chunk = 0
  /\ op = "init" /\ prev = sel /\ ret = FALSE /\ res = Null
  /\ ranges = NoList /\ out = <<>>
  /\ first = Null /\ visited = {} /\ repeated = Null /\ seed = sel
  /\ panel = FALSE /\ visible = <<>> /\ deco = <<>>

SpecOcc == InitOcc /\ [][selectNextOccurrence]_vars

RangeSet(s) == {s.ranges[i] : i \in 1..Len(s.ranges)}

Disjoint(r1, r2) == r1.to <= r2.from \/ r2.to <= r1.from

HasCursor(s) == \E r \in RangeSet(s) : r.from = r.to

\* The occurrences of the text of the first range of s that are disjoint
\* from every range of s.
UnselectedOccurrences(d, s) ==
  LET text == sliceDoc(d, s.ranges[1].from, s.ranges[1].to)
  IN {Range(p, p + Len(text)) : p \in OccurrencesIn(d, text, 0, Len(d))}
     \cap {r \in RangesOf(d) : \A r2 \in RangeSet(s) : Disjoint(r, r2)}

\* C8: starting from a selection of one occurrence of a text, every call of
\* selectNextOccurrence succeeds and adds exactly one range as long as some
\* occurrence of the text is still unselected, and returns false and leaves
\* the selection unchanged only once all occurrences are selected.
C8_SelectsEveryOccurrence ==
  (/\ op = "selectNextOccurrence"
   /\ Len(seed.ranges) = 1 /\ ~HasCursor(seed)) =>
    IF UnselectedOccurrences(doc, prev) # {}
    THEN ret /\ Len(sel.ranges) = Len(prev.ranges) + 1
    ELSE ~ret /\ sel = prev

\* C9: whenever selectNextOccurrence finds an occurrence, it is disjoint
\* from every range already selected: the new selection holds every previous
\* range unchanged plus exactly one new range.
C9_NewRangeDisjoint ==
  (op = "selectNextOccurrence" /\ ~HasCursor(prev) /\ ret) =>
    \E r \in RangesOf(doc) :
      /\ \A r2 \in RangeSet(prev) : Disjoint(r, r2)
      /\ RangeSet(sel) = RangeSet(prev) \cup {r}
      /\ Len(sel.ranges) = Len(prev.ranges) + 1

\* C10: when a range of the selection is empty, selectNextOccurrence only
\* replaces every empty range by the word around it (or leaves it a cursor),
\* leaves every non-empty range as it was and adds no range.
C10_SeedStepFrame ==
  (op = "selectNextOccurrence" /\ HasCursor(prev)) =>
    LET cursors == {r \in RangeSet(prev) : r.from = r.to}
        words == {wordOrCursor(doc, r) : r \in cursors}
    IN /\ \A r \in RangeSet(prev) \ cursors :
            (\A w \in words : r.to < w.from \/ w.to < r.from) =>
              r \in RangeSet(sel)
       /\ \A w \in words : \E r \in RangeSet(sel) :
            r.from <= w.from /\ w.to <= r.to
       /\ Len(sel.ranges) <= Len(prev.ranges)

(***************************************************************************)
(* replaceNext.                                                            *)
(***************************************************************************)
\* The document after the change {from, to, insert}.
applyChange(d, ch) ==
  SubSeq(d, 1, ch.from) \o ch.insert \o SubSeq(d, ch.to + 1, Len(d))

\* A selection that a transaction maps through its change: the range that
\* was replaced ends up around the inserted text.
mapSelection(s, ch) ==
  [ranges |-> [k \in 1..Len(s.ranges) |->
                 IF s.ranges[k].from = ch.from /\ s.ranges[k].to = ch.to
                 THEN Range(ch.from, ch.from + Len(ch.insert))
                 ELSE s.ranges[k]],
   main |-> s.main]

\* The offset replaceNext subtracts from the next match to place the new
\* selection in the document after the change.
replaceNextOff(changes, next) ==
  IF changes = <<>> \/ changes[1].from >= next.to THEN 0
  ELSE next.to - next.from - Len(changes[1].insert)

\* replaceNext runs on documents of at most MaxDoc characters, so that
\* repeated replacements keep the document bounded.
replaceNext ==
  /\ searchCommand(query)
  /\ Len(doc) <= MaxDoc
  /\ \E found \in {nextMatch(doc, query, MainRange(sel).from, MainRange(sel).from)} :
     \E hit \in {found # Null /\ found.from = MainRange(sel).from
                               /\ found.to = MainRange(sel).to} :
     \E changes \in {IF hit
                      THEN <<[from |-> found.from, to |-> found.to,
                              insert |-> getReplacement(query, found)]>>
                      ELSE <<>>} :
     \E next \in {IF hit THEN nextMatch(doc, query, found.from, found.to)
                   ELSE found} :
     \E off \in {IF next = Null THEN 0 ELSE replaceNextOff(changes, next)} :
     \E newDoc \in {IF hit THEN applyChange(doc, changes[1]) ELSE doc} :
       /\ res' = next
       /\ IF found = Null
          THEN /\ ret' = FALSE /\ doc' = doc /\ sel' = sel
               /\ ranges' = NoList /\ out' = <<>>
          ELSE /\ ranges' = [null |-> FALSE, list |-> changes]
               /\ out' = IF hit THEN changes[1].insert ELSE <<>>
               /\ IF next = Null
                  THEN /\ ret' = TRUE /\ doc' = newDoc
                       /\ sel' = mapSelection(sel, changes[1])
                  ELSE IF 0 <= next.from - off /\ next.to - off <= Len(newDoc)
                  THEN /\ ret' = TRUE /\ doc' = newDoc
                       /\ sel' = Single(next.from - off, next.to - off)
                  \* the transaction is rejected: its selection points
                  \* outside of the new document
                  ELSE ret' = FALSE /\ doc' = doc /\ sel' = sel
  /\ op' = "replaceNext"
  /\ prev' = sel
  /\ first' = Null /\ visited' = {} /\ repeated' = Null
  /\ chunk' = 0
  /\ UNCHANGED <<query, seed, panel, visible, deco>>

\* The replacement texts of the queries replaceNext runs with: empty, as
\* long as a one-character match, and longer than every match.
Replacements == {<<>>, <<"b">>, <<"b", "b", "b">>}

\* Two literals, and two regular expressions of which the first has matches
\* of different lengths.
ReplaceQueries ==
  {[kind |-> "string", search |-> n, replace |-> r] :
     n \in {<<"a">>, <<"a", "b">>}, r \in Replacements}
  \cup {[kind |-> "regexp", search |-> p, replace |-> r] :
          p \in {<<"a", "b", "|", "a">>, <<"a", ".">>}, r \in Replacements}

InitReplace ==
  /\ doc \in Docs(Letters)
  /\ query \in ReplaceQueries
  /\ \E f \in 0..Len(doc) : \E t \in f..Len(doc) : sel = Single(f, t)
  /\ chunk = 0
  /\ op = "init" /\ prev = sel /\ ret = FALSE /\ res = Null
  /\ ranges = NoList /\ out = <<>>
  /\ first = Null /\ visited = {} /\ repeated = Null /\ seed = sel
  /\ panel = FALSE /\ visible = <<>> /\ deco = <<>>

SpecReplace == InitReplace /\ [][replaceNext]_vars

\* C14: when replaceNext replaces the match that coincides with the main
\* selection and a further match exists, the selection it dispatches lies
\* within the document after the edit and covers exactly that further
\* match there: moved back by (replaced length - replacement length) when
\* the further match is after the edit, unmoved when it is before.
C14_SelectionOnNextMatch ==
  (op = "replaceNext" /\ ranges.list # <<>> /\ res # Null) =>
    LET ch == ranges.list[1]
        shift == (ch.to - ch.from) - Len(ch.insert)
        at == IF res.from >= ch.to THEN res.from - shift ELSE res.from
    IN /\ ret
       /\ Len(sel.ranges) = 1
       /\ MainRange(sel) = Range(at, at + (res.to - res.from))
       /\ 0 <= MainRange(sel).from /\ MainRange(sel).to <= Len(doc)

(***************************************************************************)
(* The limit of the commands that select every match.                      *)
(***************************************************************************)
\* The number of matches a scan of the whole document with next() yields.
RECURSIVE CountMatches(_, _, _)
CountMatches(d, text, cursor) ==
  IF cursor = Null THEN 0
  ELSE 1 + CountMatches(d, text, SearchCursor_next(d, text, cursor, Len(d)))

\* C12: no selection command produces a selection of more than the limit
\* (1000 in the source) ranges.  When there are more matches than the limit
\* selectMatches and selectSelectionMatches return false and leave the
\* selection as it was; when there are at most that many (and at least one)
\* they select them all, never a truncated subset.
C12_SelectLimit ==
  /\ (op \in {"selectMatches", "selectSelectionMatches"} /\ ret)
       => Len(sel.ranges) <= SelectLimit
  /\ op = "selectMatches" =>
       LET all == matchAll(doc, query, MaxDoc + 1)
       IN IF Len(all.list) > SelectLimit \/ all.list = <<>>
          THEN ~ret /\ sel = prev
          ELSE /\ ret
               /\ \A i \in 1..Len(all.list) :
                     \E k \in 1..Len(sel.ranges) :
                       /\ sel.ranges[k].from <= all.list[i].from
                       /\ all.list[i].to <= sel.ranges[k].to
  /\ (op = "selectSelectionMatches" /\ Len(prev.ranges) = 1
       /\ MainRange(prev).from < MainRange(prev).to) =>
       LET text == sliceDoc(doc, MainRange(prev).from, MainRange(prev).to)
           n == CountMatches(doc, text, SearchCursorFrom(doc, text, 0, Len(doc)))
       IN IF n > SelectLimit
          THEN ~ret /\ sel = prev
          ELSE ret /\ Len(sel.ranges) = n

(***************************************************************************)
(* The search highlighter: the searchState field (query and panel) and the *)
(* searchHighlighter view plugin that keeps a decoration set for the       *)
(* matches inside the visible ranges.                                      *)
(***************************************************************************)
MaxHlDoc == 4

\* RegExp.HighlightMargin is 250 in the source; the model scales it to the
\* documents it explores.
HighlightMargin == 2

\* What the range set builder is left with when add is called with a from
\* below the previous one: add throws and the pass produces no set.
BuilderError == <<[from |-> -1, to |-> -1, selected |-> FALSE]>>

\* The (from, to) pairs a cursor hands to add, in call order.
RECURSIVE StringHighlightLoop(_, _, _, _)
StringHighlightLoop(d, q, cursor, to) ==
  IF cursor = Null THEN <<>>
  ELSE <<Range(cursor.from, cursor.to)>>
       \o StringHighlightLoop(d, q, SearchCursor_next(d, q.search, cursor, to), to)

StringQuery_highlight(d, q, from, to) ==
  LET end == Min(to + Len(q.search), Len(d))
  IN StringHighlightLoop(d, q,
       StringQuery_cursor(d, q, Max(0, from - Len(q.search)), end), end)

RECURSIVE RegExpHighlightLoop(_, _, _, _)
RegExpHighlightLoop(d, q, cursor, to) ==
  IF cursor = Null THEN <<>>
  ELSE <<Range(cursor.from, cursor.to)>>
       \o RegExpHighlightLoop(d, q,
            RegExpCursor_nextOverlapping(d, q.search, cursor, to), to)

RegExpQuery_highlight(d, q, from, to) ==
  LET end == Min(to + HighlightMargin, Len(d))
  IN RegExpHighlightLoop(d, q,
       RegExpQuery_cursor(d, q, Max(0, from - HighlightMargin), end), end)

Query_highlight(d, q, from, to) ==
  IF q.kind = "string" THEN StringQuery_highlight(d, q, from, to)
  ELSE RegExpQuery_highlight(d, q, from, to)

\* The inner while loop of highlight: the index of the last visible range
\* merged into the one at i.
RECURSIVE mergeVisible(_, _)
mergeVisible(rs, i) ==
  IF i < Len(rs) /\ rs[i].to > rs[i + 1].from - HighlightMargin
  THEN mergeVisible(rs, i + 1)
  ELSE i

\* The calls builder.add receives in one pass of highlight, in order.
RECURSIVE highlightAdds(_, _, _, _, _)
highlightAdds(d, q, s, rs, i) ==
  IF i > Len(rs) THEN <<>>
  ELSE LET j == mergeVisible(rs, i)
           found == Query_highlight(d, q, rs[i].from, rs[j].to)
           marks == [k \in 1..Len(found) |->
                      [from |-> found[k].from, to |-> found[k].to,
                       selected |-> \E n \in 1..Len(s.ranges) :
                                       /\ s.ranges[n].from = found[k].from
                                       /\ s.ranges[n].to = found[k].to]]
       IN marks \o highlightAdds(d, q, s, rs, j + 1)

builderAccepts(adds) ==
  \A k \in 1..(Len(adds) - 1) : adds[k].from <= adds[k + 1].from

\* searchHighlighter.highlight: the decoration set for a search state.
highlight(d, q, pnl, s, rs) ==
  IF ~pnl \/ ~valid(q) THEN <<>>
  ELSE LET adds == highlightAdds(d, q, s, rs, 1)
       IN IF builderAccepts(adds) THEN adds ELSE BuilderError

\* searchHighlighter.update: the set is rebuilt when the search state, the
\* document or the selection changed, and kept otherwise.
update(stateChanged, docChanged, selectionSet, d, q, pnl, s, rs) ==
  IF stateChanged \/ docChanged \/ selectionSet
  THEN highlight(d, q, pnl, s, rs)
  ELSE deco

\* The builder.add calls of the pass the last update made (none when it
\* made no pass).
passAdds(ran, d, q, pnl, s, rs) ==
  IF ran /\ pnl /\ valid(q)
  THEN [null |-> FALSE, list |-> highlightAdds(d, q, s, rs, 1)]
  ELSE NoList

HlFrame ==
  UNCHANGED <<chunk, prev, ret, res, out, first, visited, repeated, seed>>

\* The queries the highlighter is run with: a literal, two regular
\* expressions, and the invalid empty literal the field starts with.
HlQueries ==
  {[kind |-> "string", search |-> n, replace |-> <<>>] :
     n \in {<<>>, <<"a", "a">>}}
  \cup {[kind |-> "regexp", search |-> p, replace |-> <<>>] :
          p \in {<<"a">>, <<"a", ".">>}}

\* view.visibleRanges: non-empty ranges of the document, sorted, with
\* hidden content between two successive ones.
MaxVisible == 2
VisibleRanges(d) ==
  LET one == {Range(f, t) : f \in 0..Len(d), t \in 1..Len(d)}
      ok == {r \in one : r.from < r.to}
  IN {rs \in SeqsUpTo(ok, MaxVisible) :
        /\ Len(rs) >= 1
        /\ \A k \in 1..(Len(rs) - 1) : rs[k].to < rs[k + 1].from}

\* A transaction that replaces one character of the document.
docChange ==
  \E p \in 1..Len(doc) : \E c \in Letters :
    /\ c # doc[p]
    /\ doc' = [doc EXCEPT ![p] = c]
    /\ deco' = update(FALSE, TRUE, FALSE, doc', query, panel, sel, visible)
    /\ ranges' = passAdds(TRUE, doc', query, panel, sel, visible)
    /\ op' = "update"
    /\ UNCHANGED <<query, sel, panel, visible>>
    /\ HlFrame

\* A transaction that sets the selection (to a cursor or a short range near
\* the start of the document).
selectionSet ==
  \E f \in 0..1 : \E t \in f..Min(f + MaxNeedle, Len(doc)) :
    /\ sel' = Single(f, t)
    /\ sel' # sel
    /\ deco' = update(FALSE, FALSE, TRUE, doc, query, panel, sel', visible)
    /\ ranges' = passAdds(TRUE, doc, query, panel, sel', visible)
    /\ op' = "update"
    /\ UNCHANGED <<doc, query, panel, visible>>
    /\ HlFrame

\* A view update in which only the viewport, and so the visible ranges,
\* changed.
viewportChange ==
  \E rs \in VisibleRanges(doc) :
    /\ rs # visible
    /\ visible' = rs
    /\ deco' = update(FALSE, FALSE, FALSE, doc, query, panel, sel, visible')
    /\ ranges' = passAdds(FALSE, doc, query, panel, sel, visible')
    /\ op' = "update"
    /\ UNCHANGED <<doc, query, sel, panel>>
    /\ HlFrame

\* The setQuery effect, dispatched by the open panel when the query it
\* holds differs from the one in the state.
setQueryEffect ==
  \E q \in HlQueries :
    /\ panel
    /\ q # query
    /\ query' = q
    /\ deco' = update(TRUE, FALSE, FALSE, doc, query', panel, sel, visible)
    /\ ranges' = passAdds(TRUE, doc, query', panel, sel, visible)
    /\ op' = "update"
    /\ UNCHANGED <<doc, sel, panel, visible>>
    /\ HlFrame

\* The togglePanel effect: openSearchPanel on a closed panel,
\* closeSearchPanel on an open one.
togglePanelEffect ==
  /\ panel' = ~panel
  /\ deco' = update(TRUE, FALSE, FALSE, doc, query, panel', sel, visible)
  /\ ranges' = passAdds(TRUE, doc, query, panel', sel, visible)
  /\ op' = "update"
  /\ UNCHANGED <<doc, query, sel, visible>>
  /\ HlFrame

InitHl ==
  /\ doc \in {d \in Docs(Letters) : Len(d) = MaxHlDoc}
  /\ query = [kind |-> "string", search |-> <<>>, replace |-> <<>>]
  /\ panel = FALSE
  /\ sel = Single(0, 0)
  /\ visible \in VisibleRanges(doc)
  /\ deco = highlight(doc, query, panel, sel, visible)
  /\ chunk = 0
  /\ op = "init" /\ prev = sel /\ ret = FALSE /\ res = Null
  /\ ranges = NoList /\ out = <<>>
  /\ first = Null /\ visited = {} /\ repeated = Null /\ seed = sel

NextHl ==
  docChange \/ selectionSet \/ viewportChange \/ setQueryEffect
  \/ togglePanelEffect

SpecHl == InitHl /\ [][NextHl]_vars

\* C11: after every update -- document change, selection change, query or
\* panel change, viewport change -- the decoration set the highlighter holds
\* is the one highlight computes for the current query, panel, document,
\* selection and visible ranges (so it is never stale against the visible
\* ranges, and is empty while the panel is closed or the query invalid).
C11_DecorationsCurrent ==
  deco = highlight(doc, query, panel, sel, visible)

\* C13: in one highlighter pass the ranges handed to the builder come in
\* non-decreasing from order and no match is handed over twice.
C13_BuilderOrderedNoDuplicate ==
  \A i \in 1..Len(ranges.list) : \A j \in 1..Len(ranges.list) :
    i < j => /\ ranges.list[i].from <= ranges.list[j].from
             /\ Pos(ranges.list[i]) # Pos(ranges.list[j])

====
